---------------------------- MODULE Spec2Model ----------------------------
(***************************************************************************)
(* Kickout: the release workflow of src/kickout.js as a state machine.     *)
(*                                                                         *)
(* The workflow is one async function.  Between two awaits the code runs   *)
(* without interruption; it suspends only while an external command (a     *)
(* child process) is in flight.  Each step of the source is one action,    *)
(* and each real command has a second action for its completion, whose     *)
(* outcome (exit status, output) is chosen by the environment.             *)
(*                                                                         *)
(* Strings are modelled by their structure:                                *)
(*   - a version string is a record (optional "v" prefix, three numbers,   *)
(*     optional pre-release and build parts), or a string that is no       *)
(*     semantic version, or undefined;                                     *)
(*   - the text of package.json is the sequence of the places where the    *)
(*     pattern  "version" : "<value>"  can match, in text order; one of    *)
(*     them at most is the top-level property JSON.parse reports as        *)
(*     pkg.version, the others are nested objects' keys.                   *)
(***************************************************************************)
EXTENDS Integers, Sequences, FiniteSets, TLC

VARIABLES
    pc,          \* position of the async function
    argv,        \* parsed command line: bump, noop
    file,        \* package.json on disk
    pkgData,     \* text read in step 1 (undefined before)
    status,      \* step 2 classification
    versionOld,  \* step 4 registry answer
    versionNew,  \* step 5 resolved version
    cmds,        \* commands echoed by cmd(), in order, with their outcome
    outErr,      \* ERROR line written through out() (process.stdout)
    errErr,      \* ERROR line written to process.stderr by the catch handler
    exitCode,    \* process exit code once pc = "exit"
    child,       \* the child process of the command in flight
    env          \* what outlives a run: its number, the working copy, the registry

vars == <<pc, argv, file, pkgData, status, versionOld, versionNew, cmds,
          outErr, errErr, exitCode, child, env>>

---------------------------------------------------------------------------
(* Bounds *)

\* Largest number used for a version component of the inputs.
MaxNum == 1

Nums == 0..MaxNum

---------------------------------------------------------------------------
(* Version strings *)

Ver(vp, ma, mi, pa, pre, build) ==
    [kind |-> "ver", vp |-> vp, major |-> ma, minor |-> mi, patch |-> pa,
     pre |-> pre, build |-> build]

\* A string that semver rejects (empty output, "latest", "1.0", ...).
BadVer == [kind |-> "bad", vp |-> FALSE, major |-> 0, minor |-> 0, patch |-> 0,
           pre |-> "", build |-> ""]

\* JavaScript undefined (a missing property).
Undef == [kind |-> "undef", vp |-> FALSE, major |-> 0, minor |-> 0, patch |-> 0,
          pre |-> "", build |-> ""]

\* MAJOR.MINOR.PATCH, nothing else.
Plain(ma, mi, pa) == Ver(FALSE, ma, mi, pa, "", "")

PlainVersions == { Plain(a, b, c) : a \in Nums, b \in Nums, c \in Nums }


\* The versions a manifest or the registry may carry: plain ("1.0.0"), with
\* a pre-release part ("1.0.0-beta"), with build metadata ("1.0.0+b1").
Versions ==
    PlainVersions
    \cup { Ver(FALSE, a, b, c, "beta", "") : a \in Nums, b \in Nums, c \in Nums }
    \cup { Ver(FALSE, a, b, c, "", "b1") : a \in Nums, b \in Nums, c \in Nums }

\* The same with the "v" prefix semver's parser accepts ("v1.0.0").
PrefixedVersions == { Ver(TRUE, a, b, c, "", "") : a \in Nums, b \in Nums, c \in Nums }

\* new SemVer(x) throws TypeError unless x is a valid version string.
SemverValid(v) == v.kind = "ver"

\* neq comparing the major component alone.
SemverNeqMajorOnly(a, b) == a.major # b.major

\* semver.neq(a, b) for valid a, b: compareMain, then comparePre; the "v"
\* prefix and the build metadata take no part in the comparison.
SemverNeq(a, b) ==
    \/ a.major # b.major
    \/ a.minor # b.minor
    \/ a.patch # b.patch
    \/ a.pre # b.pre

\* inc whose minor bump leaves the patch component as it is.
SemverIncKeepsPatch(v, release) ==
    CASE release = "major" ->
           Plain(IF v.minor # 0 \/ v.patch # 0 \/ v.pre = ""
                 THEN v.major + 1 ELSE v.major, 0, 0)
      [] release = "minor" ->
           Plain(v.major,
                 IF v.patch # 0 \/ v.pre = "" THEN v.minor + 1 ELSE v.minor, v.patch)
      [] release = "patch" ->
           Plain(v.major, v.minor, IF v.pre = "" THEN v.patch + 1 ELSE v.patch)

\* semver.inc(v, release) for a valid v and release in major|minor|patch
\* (SemVer.prototype.inc): a pre-release version is bumped "up to" its own
\* release when the lower components are zero; the result is formatted as
\* MAJOR.MINOR.PATCH.
SemverInc(v, release) ==
    CASE release = "major" ->
           Plain(IF v.minor # 0 \/ v.patch # 0 \/ v.pre = ""
                 THEN v.major + 1 ELSE v.major, 0, 0)
      [] release = "minor" ->
           Plain(v.major,
                 IF v.patch # 0 \/ v.pre = "" THEN v.minor + 1 ELSE v.minor, 0)
      [] release = "patch" ->
           Plain(v.major, v.minor, IF v.pre = "" THEN v.patch + 1 ELSE v.patch)

---------------------------------------------------------------------------
(* package.json *)

\* One place of the text where  "version" : "<val>"  occurs.
Occ(top, val) == [top |-> top, val |-> val]

\* The file's content.  kind: what JSON.parse makes of it.
Manifest(kind, text, prepublish, prepublishOnly) ==
    [kind |-> kind, text |-> text,
     prepublish |-> prepublish, prepublishOnly |-> prepublishOnly]

\* No file / nothing read yet.
NoData == Manifest("absent", <<>>, FALSE, FALSE)

\* pkg.version: the value of the top-level version property (the last one,
\* were there several), undefined without one.
PkgVersion(text) ==
    LET tops == { i \in 1..Len(text) : text[i].top }
    IN  IF tops = {} THEN Undef
        ELSE text[CHOOSE i \in tops : \A j \in tops : j <= i].val

\* A pattern that never matches: the text comes back as it went in.
ReplaceNothing(text, old, new) == text

\* The pattern with the g flag: every place whose value is old is replaced.
ReplaceEvery(text, old, new) ==
    [i \in 1..Len(text) |-> IF text[i].val = old THEN Occ(text[i].top, new) ELSE text[i]]

\* pkgData.replace(re, `$1${versionNew}$2`): the regular expression has no
\* g flag, so the first place whose quoted value is exactly old is replaced.
Replace(text, old, new) ==
    LET hits == { i \in 1..Len(text) : text[i].val = old }
    IN  IF hits = {} THEN text
        ELSE LET i == CHOOSE k \in hits : \A j \in hits : k <= j
             IN  [text EXCEPT ![i].val = new]

---------------------------------------------------------------------------
(* Inputs *)

\* The positional argument: major | minor | patch | X.Y.Z | anything else.
Bump(kind, ver) == [kind |-> kind, ver |-> ver]

\* The X.Y.Z arguments tried: below, among and above the manifests' versions.
ExplicitVersions == { Plain(m, 0, 0) : m \in 0..(MaxNum + 1) }

Bumps ==
    { Bump(k, Undef) : k \in {"major", "minor", "patch", "invalid"} }
    \cup { Bump("explicit", v) : v \in ExplicitVersions }

\* The versions of the texts that have a nested "version" key.
NestedVersions == { Plain(0, 0, c) : c \in Nums }

\* Texts of a package.json that parses to an object: no version key, a
\* top-level one, a nested one before or after the top-level one.
Texts ==
    {<<>>}
    \cup { <<Occ(TRUE, v)>> : v \in Versions \cup PrefixedVersions \cup {BadVer} }
    \cup { <<Occ(FALSE, w), Occ(TRUE, v)>> : v \in NestedVersions, w \in NestedVersions }
    \cup { <<Occ(TRUE, v), Occ(FALSE, w)>> : v \in NestedVersions, w \in NestedVersions }

Manifests ==
    { Manifest(k, <<>>, FALSE, FALSE) :
        k \in {"absent", "unparseable", "scalar", "null", "array"} }
    \cup { Manifest("object", t, p, q) : t \in Texts, p \in BOOLEAN, q \in BOOLEAN }

\* What `npm view <name> version` may print.
PublishedOutputs == Versions \cup {BadVer}

---------------------------------------------------------------------------
(* Child processes *)

\* The three promises cmd() awaits: the process's exit and the end of its
\* two output streams.
Child(running, exited, stdoutEnd, stderrEnd) ==
    [running |-> running, exited |-> exited,
     stdoutEnd |-> stdoutEnd, stderrEnd |-> stderrEnd]

NoChild == Child(FALSE, FALSE, FALSE, FALSE)

Started == Child(TRUE, FALSE, FALSE, FALSE)

\* Awaiting the process alone: resolved once it has exited.
ResolvedOnExit(c) == c.exited

\* Promise.all([child, getStream(stdout), getStream(stderr)]) resolves only
\* when all three have resolved.
AllResolved(c) == c.exited /\ c.stdoutEnd /\ c.stderrEnd

\* Promise.all rejects as soon as one rejects: the process ending in failure.
Rejected(c) == c.running /\ ~c.exited

\* When the awaited promise can settle with the given outcome.
Awaited(ok) == IF ok THEN AllResolved(child) ELSE Rejected(child)

---------------------------------------------------------------------------
(* Helpers of the workflow *)

\* The ERROR line without the process.exit(1): the function runs on.
AbortFallsThrough(msg) ==
    /\ pc' = CASE pc = "status" -> "step3"
               [] pc = "step5" -> "step6"
               [] OTHER -> "exit"
    /\ outErr' = msg
    /\ UNCHANGED <<errErr, exitCode>>

\* The ERROR line followed by process.exit(0).
AbortExitsZero(msg) ==
    /\ pc' = "exit"
    /\ exitCode' = 0
    /\ outErr' = msg
    /\ errErr' = errErr

\* process.exit(1) after an ERROR line written through out().
Abort(msg) ==
    /\ pc' = "exit"
    /\ exitCode' = 1
    /\ outErr' = msg
    /\ errErr' = errErr

\* A thrown error: the async function rejects, the catch handler writes the
\* ERROR line to process.stderr and exits with 1.
Fatal(msg) ==
    /\ pc' = "exit"
    /\ exitCode' = 1
    /\ errErr' = msg
    /\ outErr' = outErr

Goto(next) ==
    /\ pc' = next
    /\ UNCHANGED <<outErr, errErr, exitCode>>

\* cmd with the noop flag ignored: every command is started for real.
CmdAlwaysReal(c, arg, ver, noop, wait, next) ==
    /\ cmds' = Append(cmds, [cmd |-> c, arg |-> arg, ver |-> ver, real |-> TRUE,
                             outcome |-> "running", stdout |-> "", stderr |-> ""])
    /\ child' = Started
    /\ Goto(wait)

\* cmd that under noop echoes nothing.
CmdSilentNoop(c, arg, ver, noop, wait, next) ==
    /\ cmds' = IF noop THEN cmds
               ELSE Append(cmds, [cmd |-> c, arg |-> arg, ver |-> ver, real |-> TRUE,
                                  outcome |-> "running", stdout |-> "", stderr |-> ""])
    /\ child' = IF noop THEN child ELSE Started
    /\ Goto(IF noop THEN next ELSE wait)

\* cmd(cmd, noop): echo the command line; with noop resolve at once with
\* empty output, otherwise start the child process and wait for it.
Cmd(c, arg, ver, noop, wait, next) ==
    /\ cmds' = Append(cmds, [cmd |-> c, arg |-> arg, ver |-> ver, real |-> ~noop,
                             outcome |-> IF noop THEN "ok" ELSE "running",
                             stdout |-> "", stderr |-> ""])
    /\ child' = IF noop THEN child ELSE Started
    /\ Goto(IF noop THEN next ELSE wait)

\* Settle with the rejection swallowed: the function goes on after a failure.
SettleSwallowed(ok, next) ==
    /\ Awaited(ok)
    /\ cmds' = [cmds EXCEPT ![Len(cmds)].outcome = IF ok THEN "ok" ELSE "failed"]
    /\ child' = NoChild
    /\ Goto(next)

\* Settle that answers a failure by starting the command again.
SettleRetries(ok, next) ==
    /\ Awaited(ok)
    /\ IF ok
       THEN /\ cmds' = [cmds EXCEPT ![Len(cmds)].outcome = "ok"]
            /\ child' = NoChild
            /\ Goto(next)
       ELSE /\ child' = Started
            /\ UNCHANGED <<cmds, pc, outErr, errErr, exitCode>>

\* The awaited promise settles: resolved, the function goes on; rejected
\* ("shell command failed"), the error propagates to the catch handler.
Settle(ok, next) ==
    /\ Awaited(ok)
    /\ cmds' = [cmds EXCEPT ![Len(cmds)].outcome = IF ok THEN "ok" ELSE "failed"]
    /\ child' = NoChild
    /\ IF ok THEN Goto(next) ELSE Fatal("shell command failed")

\* A classification that looks at stdout only.
ClassifyStdoutOnly(ok, stdoutEmpty, stderrEmpty) ==
    IF ~ok THEN "error"
    ELSE IF stdoutEmpty THEN "clean"
    ELSE "changes"

\* Step 2's classification of the status command's result.
Classify(ok, stdoutEmpty, stderrEmpty) ==
    IF ~ok THEN "error"
    ELSE IF stdoutEmpty /\ stderrEmpty THEN "clean"
    ELSE IF stderrEmpty THEN "changes"
    ELSE "error"

\* A command's stdout: one line, with or without the newline ending it.
Stdout(line, nl) == [line |-> line, nl |-> nl]

\* versionOld.replace(/\r?\n$/, ""): the text without its final newline.
TrimNewline(stdout) == stdout.line

IsKeyword(bump) == bump.kind \in {"major", "minor", "patch"}

\* versionNew that refuses to go down: an X.Y.Z below the current version is
\* replaced by the next patch version.
ResolveVersionUpwards(version, bump) ==
    IF IsKeyword(bump) THEN SemverInc(version, bump.kind)
    ELSE IF \/ bump.ver.major < version.major
            \/ bump.ver.major = version.major /\ bump.ver.minor < version.minor
            \/ bump.ver.major = version.major /\ bump.ver.minor = version.minor
                 /\ bump.ver.patch < version.patch
         THEN SemverInc(version, "patch")
         ELSE bump.ver

\* versionNew: semver.inc for a bump keyword, the argument itself otherwise.
ResolveVersion(version, bump) ==
    IF IsKeyword(bump) THEN SemverInc(version, bump.kind) ELSE bump.ver

---------------------------------------------------------------------------
(* What a run leaves behind *)

\* The run's number, whether package.json carries a change of kickout's that
\* no commit holds yet, and the version the registry last answered.
Env(run, modified, published) ==
    [run |-> run, modified |-> modified, published |-> published]

FirstRun == Env(1, FALSE, Undef)

\* `git status --porcelain` in a later run reports the working copy as the
\* earlier run left it; in the first run any report is possible.
StatusReport(ok, stdoutEmpty, stderrEmpty) ==
    env.run = 1 \/ (ok /\ stderrEmpty /\ stdoutEmpty = ~env.modified)

\* `npm view` in a later run answers the version the registry still holds.
RegistryAnswer(line) ==
    env.run = 1 \/ line = env.published

---------------------------------------------------------------------------
(* The workflow *)

Init ==
    /\ pc = "start"
    /\ argv \in [bump : Bumps, noop : BOOLEAN]
    /\ file \in Manifests
    /\ pkgData = NoData
    /\ status = ""
    /\ versionOld = Undef
    /\ versionNew = Undef
    /\ cmds = <<>>
    /\ outErr = ""
    /\ errErr = ""
    /\ exitCode = 0
    /\ child = NoChild
    /\ env = FirstRun

\* Argument check and step 1: read old package configuration.
Start ==
    /\ pc = "start"
    /\ UNCHANGED <<argv, file, status, versionOld, versionNew, cmds, child, env>>
    /\ IF argv.bump.kind = "invalid"
       THEN Fatal("invalid bumping mode") /\ UNCHANGED pkgData
       ELSE IF file.kind = "absent"
       THEN Abort("cannot find package.json") /\ UNCHANGED pkgData
       ELSE IF file.kind = "unparseable"
       THEN Fatal("SyntaxError") /\ pkgData' = file
       ELSE IF file.kind = "scalar"
       THEN Abort("invalid package.json") /\ pkgData' = file
       ELSE Goto("step2") /\ pkgData' = file

\* Step 2: check Git working copy status (always for real).
Step2 ==
    /\ pc = "step2"
    /\ Cmd("git status", "", Undef, FALSE, "status", "step3")
    /\ UNCHANGED <<argv, file, pkgData, status, versionOld, versionNew, env>>

StatusDone ==
    /\ pc = "status"
    /\ \E ok \in BOOLEAN, stdoutEmpty \in BOOLEAN, stderrEmpty \in BOOLEAN :
         /\ Awaited(ok)
         /\ StatusReport(ok, stdoutEmpty, stderrEmpty)
         /\ child' = NoChild
         /\ cmds' = [cmds EXCEPT ![Len(cmds)].outcome = IF ok THEN "ok" ELSE "failed",
                                 ![Len(cmds)].stdout = IF stdoutEmpty THEN "" ELSE "text",
                                 ![Len(cmds)].stderr = IF stderrEmpty THEN "" ELSE "text"]
         /\ status' = Classify(ok, stdoutEmpty, stderrEmpty)
         /\ IF status' # "clean"
            THEN Abort("Git working copy status")
            ELSE Goto("step3")
    /\ UNCHANGED <<argv, file, pkgData, versionOld, versionNew, env>>

\* Step 3 with the two tests in the other order: prepublishOnly wins.
Step3PrefersOnly ==
    /\ pc = "step3"
    /\ IF pkgData.kind = "null"
       THEN Fatal("TypeError") /\ UNCHANGED <<cmds, child>>
       ELSE IF pkgData.prepublishOnly
       THEN Cmd("npm run", "prepublishOnly", Undef, argv.noop, "hook", "step4")
       ELSE IF pkgData.prepublish
       THEN Cmd("npm run", "prepublish", Undef, argv.noop, "hook", "step4")
       ELSE Goto("step4") /\ UNCHANGED <<cmds, child>>
    /\ UNCHANGED <<argv, file, pkgData, status, versionOld, versionNew, env>>

\* Step 3: optionally run NPM pre-publish scripts.
Step3 ==
    /\ pc = "step3"
    /\ IF pkgData.kind = "null"
       THEN Fatal("TypeError") /\ UNCHANGED <<cmds, child>>
       ELSE IF pkgData.prepublish
       THEN Cmd("npm run", "prepublish", Undef, argv.noop, "hook", "step4")
       ELSE IF pkgData.prepublishOnly
       THEN Cmd("npm run", "prepublishOnly", Undef, argv.noop, "hook", "step4")
       ELSE Goto("step4") /\ UNCHANGED <<cmds, child>>
    /\ UNCHANGED <<argv, file, pkgData, status, versionOld, versionNew, env>>

HookDone ==
    /\ pc = "hook"
    /\ \E ok \in BOOLEAN : Settle(ok, "step4")
    /\ UNCHANGED <<argv, file, pkgData, status, versionOld, versionNew, env>>

\* Step 4: determine latest published NPM version (always for real).
Step4 ==
    /\ pc = "step4"
    /\ Cmd("npm view", "version", Undef, FALSE, "view", "step5")
    /\ UNCHANGED <<argv, file, pkgData, status, versionOld, versionNew, env>>

ViewDone ==
    /\ pc = "view"
    /\ \/ /\ Settle(FALSE, "step5")
          /\ UNCHANGED <<versionOld, env>>
       \/ \E line \in PublishedOutputs, nl \in BOOLEAN :
            /\ Awaited(TRUE)
            /\ RegistryAnswer(line)
            /\ child' = NoChild
            /\ env' = [env EXCEPT !.published = line]
            /\ cmds' = [cmds EXCEPT ![Len(cmds)].outcome = "ok",
                                    ![Len(cmds)].stdout = "text"]
            /\ Goto("step5")
            /\ versionOld' = TrimNewline(Stdout(line, nl))
    /\ UNCHANGED <<argv, file, pkgData, status, versionNew>>

\* Step 5: bump version number in package.json.
Step5 ==
    /\ pc = "step5"
    /\ UNCHANGED <<argv, pkgData, status, versionOld, cmds, child>>
    /\ LET version == IF pkgData.kind = "object" THEN PkgVersion(pkgData.text) ELSE Undef
           new == ResolveVersion(version, argv.bump)
           pkgDataNew == Replace(pkgData.text, versionOld, new)
       IN  IF ~SemverValid(version) \/ ~SemverValid(versionOld)
           THEN Fatal("TypeError: Invalid Version") /\ UNCHANGED <<file, versionNew, env>>
           ELSE IF SemverNeq(version, versionOld)
           THEN Abort("latest published version not equal current version")
                /\ UNCHANGED <<file, versionNew, env>>
           ELSE /\ versionNew' = new
                /\ IF pkgDataNew = pkgData.text
                   THEN Fatal("failed to update package configuration")
                        /\ UNCHANGED <<file, env>>
                   ELSE /\ Goto("step6")
                        /\ file' = IF argv.noop THEN file
                                   ELSE [pkgData EXCEPT !.text = pkgDataNew]
                        /\ env' = IF argv.noop THEN env
                                  ELSE [env EXCEPT !.modified = TRUE]

\* Step 6 issuing the tag command where the commit belongs.
Step6TagFirst ==
    /\ pc = "step6"
    /\ Cmd("git tag", "", versionNew, argv.noop, "commit", "step7")
    /\ UNCHANGED <<argv, file, pkgData, status, versionOld, versionNew, env>>

\* Step 6: commit changes to Git.
Step6 ==
    /\ pc = "step6"
    /\ \E custom \in BOOLEAN :   \* argv.message # "", read here only
         IF custom
         THEN Cmd("git commit", "custom message", Undef, argv.noop, "commit", "step7")
         ELSE Cmd("git commit", "release version", versionNew, argv.noop, "commit", "step7")
    /\ UNCHANGED <<argv, file, pkgData, status, versionOld, versionNew, env>>

CommitDone ==
    /\ pc = "commit"
    /\ \E ok \in BOOLEAN :
         /\ Settle(ok, "step7")
         /\ env' = IF ok THEN [env EXCEPT !.modified = FALSE] ELSE env
    /\ UNCHANGED <<argv, file, pkgData, status, versionOld, versionNew>>

\* Step 7: create a Git tag for the new version.
Step7 ==
    /\ pc = "step7"
    /\ Cmd("git tag", "", versionNew, argv.noop, "tag", "step8")
    /\ UNCHANGED <<argv, file, pkgData, status, versionOld, versionNew, env>>

TagDone ==
    /\ pc = "tag"
    /\ \E ok \in BOOLEAN : Settle(ok, "step8")
    /\ UNCHANGED <<argv, file, pkgData, status, versionOld, versionNew, env>>

\* Step 8: push changes to upstream repository.
Step8 ==
    /\ pc = "step8"
    /\ Cmd("git push && git push --tags", "", Undef, argv.noop, "push", "step9")
    /\ UNCHANGED <<argv, file, pkgData, status, versionOld, versionNew, env>>

PushDone ==
    /\ pc = "push"
    /\ \E ok \in BOOLEAN : Settle(ok, "step9")
    /\ UNCHANGED <<argv, file, pkgData, status, versionOld, versionNew, env>>

\* Step 9: publish new NPM package version.
Step9 ==
    /\ pc = "step9"
    /\ Cmd("npm publish", "--tag", Undef, argv.noop, "publish", "exit")
    /\ UNCHANGED <<argv, file, pkgData, status, versionOld, versionNew, env>>

PublishDone ==
    /\ pc = "publish"
    /\ \E ok \in BOOLEAN : Settle(ok, "exit")
    /\ UNCHANGED <<argv, file, pkgData, status, versionOld, versionNew, env>>

\* The child process runs to a successful end: it exits and both of its
\* streams end, seen as one event.
ChildFinishes ==
    /\ child = Started
    /\ child' = Child(TRUE, TRUE, TRUE, TRUE)
    /\ UNCHANGED <<pc, argv, file, pkgData, status, versionOld, versionNew, cmds,
                   outErr, errErr, exitCode, env>>

Next ==
    \/ Start
    \/ Step2 \/ StatusDone
    \/ Step3 \/ HookDone
    \/ Step4 \/ ViewDone
    \/ Step5
    \/ Step6 \/ CommitDone
    \/ Step7 \/ TagDone
    \/ Step8 \/ PushDone
    \/ Step9 \/ PublishDone
    \/ ChildFinishes

Spec == Init /\ [][Next]_vars

---------------------------------------------------------------------------
(* The child process event by event *)

\* Manifests whose version values are all of the form 0.0.c.
SmallManifests ==
    { m \in Manifests :
        \A i \in 1..Len(m.text) : m.text[i].val \in NestedVersions }

InitSmall == Init /\ file \in SmallManifests

\* The process exits with status 0.
ChildExit ==
    /\ child.running /\ ~child.exited
    /\ child' = [child EXCEPT !.exited = TRUE]
    /\ UNCHANGED <<pc, argv, file, pkgData, status, versionOld, versionNew, cmds,
                   outErr, errErr, exitCode, env>>

\* The process's stdout ends: getStream(child.stdout) resolves.
StdoutEnd ==
    /\ child.running /\ ~child.stdoutEnd
    /\ child' = [child EXCEPT !.stdoutEnd = TRUE]
    /\ UNCHANGED <<pc, argv, file, pkgData, status, versionOld, versionNew, cmds,
                   outErr, errErr, exitCode, env>>

\* The process's stderr ends: getStream(child.stderr) resolves.
StderrEnd ==
    /\ child.running /\ ~child.stderrEnd
    /\ child' = [child EXCEPT !.stderrEnd = TRUE]
    /\ UNCHANGED <<pc, argv, file, pkgData, status, versionOld, versionNew, cmds,
                   outErr, errErr, exitCode, env>>

NextProc == Next \/ ChildExit \/ StdoutEnd \/ StderrEnd

SpecProc == InitSmall /\ [][NextProc]_vars

\* The event loop runs whatever is ready, and every started command exits.
\* Nothing makes a stream end: a process the command has left behind may
\* hold it open.
FairProc == SpecProc /\ WF_vars(Next) /\ WF_vars(ChildExit)

---------------------------------------------------------------------------
(* Running again after a failed release *)

\* The operator starts kickout again, with any arguments, after a run for
\* real that failed in one of the steps 6 to 9.  The new process starts
\* from scratch; package.json, the working copy and the registry are as the
\* failed run left them.
Rerun ==
    /\ pc = "exit"
    /\ env.run = 1
    /\ ~argv.noop
    /\ Len(cmds) > 0
    /\ cmds[Len(cmds)].cmd \in
         {"git commit", "git tag", "git push && git push --tags", "npm publish"}
    /\ cmds[Len(cmds)].outcome = "failed"
    /\ pc' = "start"
    /\ argv' \in [bump : Bumps, noop : BOOLEAN]
    /\ pkgData' = NoData
    /\ status' = ""
    /\ versionOld' = Undef
    /\ versionNew' = Undef
    /\ cmds' = <<>>
    /\ outErr' = ""
    /\ errErr' = ""
    /\ exitCode' = 0
    /\ child' = NoChild
    /\ env' = [env EXCEPT !.run = 2]
    /\ UNCHANGED file

NextRerun == Next \/ Rerun

SpecRerun == InitSmall /\ [][NextRerun]_vars

---------------------------------------------------------------------------
(* Vocabulary of the properties *)

\* State-mutating commands: those that honour noop.
Mutating ==
    {"npm run", "git commit", "git tag", "git push && git push --tags", "npm publish"}

\* Commands of steps 6 to 9.
ReleaseCmds == Mutating \ {"npm run"}

Issued(c) == \E i \in 1..Len(cmds) : cmds[i].cmd = c

IssuedForReal(c) == \E i \in 1..Len(cmds) : cmds[i].cmd = c /\ cmds[i].real

LastCmd == IF cmds = <<>> THEN "" ELSE cmds[Len(cmds)].cmd

\* The version the manifest that was read declares.
DeclaredVersion ==
    IF pkgData.kind = "object" THEN PkgVersion(pkgData.text) ELSE Undef

\* Equality of two version strings under the semantic-versioning rules:
\* same numbers and same pre-release part; a "v" prefix and build metadata
\* make no difference.
SemEqual(a, b) ==
    /\ a.major = b.major /\ a.minor = b.minor /\ a.patch = b.patch
    /\ a.pre = b.pre

\* Both versions are known and they are semantically unequal.
VersionsUnequal ==
    /\ DeclaredVersion.kind = "ver"
    /\ versionOld.kind = "ver"
    /\ ~SemEqual(DeclaredVersion, versionOld)

\* The text has a version key whose quoted value is exactly old.
HasPattern(text, old) == \E i \in 1..Len(text) : text[i].val = old

\* The file on disk is the text read in step 1 with one version value,
\* formerly versionOld, now versionNew.
ManifestRewritten ==
    \E i \in 1..Len(pkgData.text) :
        /\ pkgData.text[i].val = versionOld
        /\ file = [pkgData EXCEPT !.text[i].val = versionNew]

Failed == pc = "exit" /\ exitCode = 1

Succeeded == pc = "exit" /\ exitCode = 0

---------------------------------------------------------------------------
(* C1 *)

\* C1: once a step has failed (a command failed, the working copy is not
\* clean, the versions do not match, the rewrite changed nothing) the run
\* is over with exit code 1: the failed step is the last thing in the
\* command log, no command is running, and the manifest on disk is as the
\* last successful step left it (as read, or rewritten if step 5 had
\* succeeded): nothing is undone.
C1_HaltOnFailure ==
    /\ \A i \in 1..Len(cmds) :
          cmds[i].outcome = "failed" => i = Len(cmds) /\ Failed
    /\ status \in {"changes", "error"} => Failed /\ Len(cmds) = 1
    /\ (versionOld.kind # "undef" /\ pc # "step5"
          /\ (DeclaredVersion.kind # "ver" \/ versionOld.kind # "ver"
                \/ ~SemEqual(DeclaredVersion, versionOld)))
          => Failed /\ LastCmd = "npm view"
    /\ (versionNew.kind = "ver"
          /\ (~HasPattern(pkgData.text, versionOld) \/ versionNew = versionOld))
          => Failed /\ LastCmd = "npm view"
    /\ (Failed /\ pkgData # NoData)
          => IF IssuedForReal("git commit") THEN ManifestRewritten
             ELSE file = pkgData

\* A run whose tag command failed after the manifest was rewritten.
C1_Witness ==
    /\ Failed
    /\ LastCmd = "git tag"
    /\ cmds[Len(cmds)].outcome = "failed"
    /\ file # pkgData

---------------------------------------------------------------------------
(* C2 *)

\* C2: with noop set, whatever the commands return, the manifest on disk
\* stays as it was read and no hook, commit, tag, push or publish command
\* is executed for real, while git status and npm view are executed for
\* real (npm view once step 4 is reached).
C2_DryRun ==
    argv.noop =>
      /\ \A i \in 1..Len(cmds) :
            /\ cmds[i].cmd \in Mutating => ~cmds[i].real
            /\ cmds[i].cmd \in {"git status", "npm view"} => cmds[i].real
      /\ pkgData # NoData => file = pkgData
      /\ status # "" => IssuedForReal("git status")
      /\ pc \in {"view", "step5", "step6", "step7", "step8", "step9"}
            => IssuedForReal("npm view")
      /\ Succeeded => IssuedForReal("git status") /\ IssuedForReal("npm view")

\* A dry run with a hook that went through all nine steps.
C2_Witness ==
    /\ argv.noop
    /\ Succeeded
    /\ Issued("npm run")
    /\ Issued("npm publish")

---------------------------------------------------------------------------
(* C3 *)

\* C3: when the manifest's version and the published version are
\* semantically unequal the run ends with exit code 1 and has written
\* nothing: the manifest on disk is the one read at the start and no commit,
\* tag, push or publish command is issued.
C3_MismatchAborts ==
    VersionsUnequal =>
      /\ pc \in {"step5", "exit"}
      /\ pc = "exit" => exitCode = 1
      /\ file = pkgData
      /\ \A c \in ReleaseCmds : ~Issued(c)

\* A real run that ended on unequal versions.
C3_Witness ==
    /\ VersionsUnequal
    /\ ~argv.noop
    /\ pc = "exit"

---------------------------------------------------------------------------
(* C4 *)

\* Both validations have succeeded: the working copy is clean and the
\* manifest's version equals the published one.
ChecksPassed ==
    /\ status = "clean"
    /\ DeclaredVersion.kind = "ver"
    /\ versionOld.kind = "ver"
    /\ SemEqual(DeclaredVersion, versionOld)

ManifestChanged == pkgData # NoData /\ file # pkgData

\* C4 as stated: in a real run no step that honours noop (hook, manifest
\* write, commit, tag, push, publish) takes effect before the cleanliness
\* check and the version check have both succeeded.
C4_AsStated ==
    ~argv.noop =>
      /\ \A i \in 1..Len(cmds) :
            (cmds[i].cmd \in Mutating /\ cmds[i].real) => ChecksPassed
      /\ ManifestChanged => ChecksPassed

\* C4 amended: in a real run the manifest write and the commit, tag, push
\* and publish commands take effect only after both checks have succeeded;
\* the pre-publish hook takes effect after the cleanliness check has
\* succeeded (it runs before the registry is queried).
C4_ValidationBeforeRelease ==
    ~argv.noop =>
      /\ \A i \in 1..Len(cmds) :
            /\ (cmds[i].cmd \in ReleaseCmds /\ cmds[i].real) => ChecksPassed
            /\ (cmds[i].cmd = "npm run" /\ cmds[i].real) => status = "clean"
      /\ ManifestChanged => ChecksPassed

\* A real run with a hook that released.
C4_Witness ==
    /\ ~argv.noop
    /\ Succeeded
    /\ IssuedForReal("npm run")
    /\ ManifestChanged

---------------------------------------------------------------------------
(* C5 *)

\* C5: when the working copy is classified as changes or error the run ends
\* with exit code 1 and git status is the only command it issued: neither
\* the hook nor npm view is run.
C5_DirtyAborts ==
    status \in {"changes", "error"} =>
      /\ Failed
      /\ Len(cmds) = 1
      /\ cmds[1].cmd = "git status"
      /\ ~Issued("npm run")
      /\ ~Issued("npm view")

\* A run on a working copy with changes, of a package that declares a hook.
C5_Witness ==
    /\ status = "changes"
    /\ pkgData.prepublish
    /\ Failed

---------------------------------------------------------------------------
(* C6 *)

\* The commands of a run of this manifest, in order.
ExpectedCmds ==
    <<"git status">>
    \o (IF pkgData.prepublish \/ pkgData.prepublishOnly THEN <<"npm run">> ELSE <<>>)
    \o <<"npm view", "git commit", "git tag", "git push && git push --tags",
         "npm publish">>

\* C6: in a real run the commands are issued for real, one after the other
\* in the documented order, each after the previous one succeeded, none
\* twice; the manifest is written after npm view succeeded and before the
\* commit is issued; a run in which every step succeeds issued them all.
C6_OrderedEffects ==
    ~argv.noop =>
      /\ Len(cmds) <= Len(ExpectedCmds)
      /\ \A i \in 1..Len(cmds) :
            /\ cmds[i].cmd = ExpectedCmds[i]
            /\ cmds[i].real
            /\ i < Len(cmds) => cmds[i].outcome = "ok"
      /\ ManifestChanged =>
            \E i \in 1..Len(cmds) : cmds[i].cmd = "npm view" /\ cmds[i].outcome = "ok"
      /\ Issued("git commit") => ManifestRewritten
      /\ Succeeded =>
            /\ Len(cmds) = Len(ExpectedCmds)
            /\ cmds[Len(cmds)].outcome = "ok"
            /\ ManifestRewritten

\* A real run with a hook in which every step succeeded.
C6_Witness ==
    /\ ~argv.noop
    /\ Succeeded
    /\ Len(cmds) = 7

---------------------------------------------------------------------------
(* C7 *)

\* C7 as stated: a run that fails has written its ERROR line to standard
\* error and exits with code 1; a run in which every step succeeds exits
\* with code 0 and writes no ERROR line.
C7_AsStated ==
    pc = "exit" =>
      /\ (outErr # "" \/ errErr # "") => exitCode = 1
      /\ exitCode = 1 => errErr # "" /\ outErr = ""
      /\ exitCode = 0 => outErr = "" /\ errErr = ""

---------------------------------------------------------------------------
(* C8 *)

\* The increment C8 describes: the targeted component plus one, the lower
\* ones 0, the higher ones kept, nothing after the three numbers.
ExactIncrement(v, release) ==
    CASE release = "major" -> Plain(v.major + 1, 0, 0)
      [] release = "minor" -> Plain(v.major, v.minor + 1, 0)
      [] release = "patch" -> Plain(v.major, v.minor, v.patch + 1)

\* Some component below the targeted one is not 0.
LowerNonZero(v, release) ==
    CASE release = "major" -> v.minor # 0 \/ v.patch # 0
      [] release = "minor" -> v.patch # 0
      [] release = "patch" -> FALSE

Resolved == IsKeyword(argv.bump) /\ versionNew.kind = "ver"

\* C8 as stated: for every manifest version that passes the version check,
\* pre-release versions included, a bump keyword yields the exact increment.
C8_AsStated ==
    Resolved => versionNew = ExactIncrement(DeclaredVersion, argv.bump.kind)

\* C8 amended: the new version is MAJOR.MINOR.PATCH with no pre-release or
\* build part, the components above the targeted one kept and those below
\* it 0 (for patch: none below).  A version without pre-release part (with or
\* without build metadata) gets the targeted component incremented by one; a
\* pre-release version gets it incremented only if a component below it is
\* not 0, otherwise the result is the pre-release's own release
\* (1.2.0-beta + minor gives 1.2.0, 1.2.3-beta + patch gives 1.2.3).
C8_KeywordIncrement ==
    Resolved =>
      LET v == DeclaredVersion
          release == argv.bump.kind
          step == IF v.pre = "" \/ LowerNonZero(v, release) THEN 1 ELSE 0
      IN  /\ versionNew.pre = "" /\ versionNew.build = "" /\ ~versionNew.vp
          /\ release = "major" =>
                /\ versionNew.major = v.major + step
                /\ versionNew.minor = 0 /\ versionNew.patch = 0
          /\ release = "minor" =>
                /\ versionNew.major = v.major
                /\ versionNew.minor = v.minor + step
                /\ versionNew.patch = 0
          /\ release = "patch" =>
                /\ versionNew.major = v.major
                /\ versionNew.minor = v.minor
                /\ versionNew.patch = v.patch + step
          /\ v.pre = "" => versionNew = ExactIncrement(v, release)

\* A real release of a pre-release version by keyword.
C8_Witness ==
    /\ Resolved
    /\ DeclaredVersion.pre = "beta"
    /\ ~argv.noop
    /\ Succeeded

---------------------------------------------------------------------------
(* C9 *)

\* a is lower than b in version order (plain versions).
SemLess(a, b) ==
    \/ a.major < b.major
    \/ a.major = b.major /\ a.minor < b.minor
    \/ a.major = b.major /\ a.minor = b.minor /\ a.patch < b.patch

\* C9: when the argument is an explicit X.Y.Z and the run completes, the new
\* version is that string: it is the value written to the manifest (real
\* run), the tag, and the version in the default commit message, whether it
\* is lower or greater than the current version.
C9_ExplicitVerbatim ==
    (argv.bump.kind = "explicit" /\ Succeeded) =>
      /\ versionNew = argv.bump.ver
      /\ \E i \in 1..Len(cmds) :
            cmds[i].cmd = "git tag" /\ cmds[i].ver = argv.bump.ver
      /\ \A i \in 1..Len(cmds) :
            /\ cmds[i].cmd = "git tag" => cmds[i].ver = argv.bump.ver
            /\ (cmds[i].cmd = "git commit" /\ cmds[i].arg = "release version")
                  => cmds[i].ver = argv.bump.ver
      /\ ~argv.noop =>
            \E i \in 1..Len(pkgData.text) :
               /\ pkgData.text[i].val = versionOld
               /\ file = [pkgData EXCEPT !.text[i].val = argv.bump.ver]

\* A real release to an explicit version below the current one, with the
\* default commit message.
C9_Witness ==
    /\ argv.bump.kind = "explicit"
    /\ Succeeded
    /\ ~argv.noop
    /\ SemLess(argv.bump.ver, DeclaredVersion)
    /\ \E i \in 1..Len(cmds) : cmds[i].arg = "release version"

---------------------------------------------------------------------------
(* C10 *)

\* Step 5 went on to step 6.
Proceeded == pc = "step6" \/ Issued("git commit")

\* C10 as stated: whenever the text has the version-key pattern with the
\* exact old version the rewritten text differs from the input, and without
\* the pattern the run fails with nothing written and no commit.
C10_AsStated ==
    versionNew.kind = "ver" =>
      /\ HasPattern(pkgData.text, versionOld) =>
            Replace(pkgData.text, versionOld, versionNew) # pkgData.text
      /\ ~HasPattern(pkgData.text, versionOld) =>
            Failed /\ file = pkgData /\ ~Issued("git commit")

\* C10 amended: if the text has the pattern with the exact old version and
\* the new version differs from the old one, the rewritten text differs from
\* the input and the run goes on (writing it, in a real run); if the text
\* has no such pattern, or the new version is the old one (an explicit X.Y.Z
\* equal to the current version), the run fails with exit code 1, the
\* manifest not written and no commit issued.
C10_RewriteOrFail ==
    versionNew.kind = "ver" =>
      /\ (HasPattern(pkgData.text, versionOld) /\ versionNew # versionOld) =>
            /\ Replace(pkgData.text, versionOld, versionNew) # pkgData.text
            /\ Proceeded
            /\ ~argv.noop => ManifestRewritten /\ file # pkgData
      /\ (~HasPattern(pkgData.text, versionOld) \/ versionNew = versionOld) =>
            /\ Failed
            /\ file = pkgData
            /\ ~Issued("git commit")

\* A run whose explicit version is the current one: the pattern is there,
\* the rewrite changes nothing, the run fails.
C10_Witness ==
    /\ versionNew.kind = "ver"
    /\ HasPattern(pkgData.text, versionOld)
    /\ versionNew = versionOld
    /\ Failed

---------------------------------------------------------------------------
(* C11 *)

\* A finished run in which the working copy was clean and no command failed.
NothingFailed ==
    /\ status = "clean"
    /\ \A i \in 1..Len(cmds) : cmds[i].outcome # "failed"

\* The declared and the published version are the same version written in
\* two ways (a "v" prefix, build metadata).
SameVersionOtherText ==
    /\ DeclaredVersion.kind = "ver"
    /\ versionOld.kind = "ver"
    /\ SemEqual(DeclaredVersion, versionOld)
    /\ DeclaredVersion # versionOld

\* C11: when the manifest version and the published version are semantically
\* equal but textually different, the version check passes and the run, with
\* a clean working copy and every command succeeding, ends with exit code 0.
C11_AsStated ==
    (pc = "exit" /\ SameVersionOtherText /\ NothingFailed /\ argv.bump.kind # "invalid")
        => /\ outErr # "latest published version not equal current version"
           /\ exitCode = 0

---------------------------------------------------------------------------
(* C12 *)

\* The manifest is absent or is no key-value structure.
NoKeyValueManifest ==
    file.kind \in {"absent", "unparseable", "scalar", "null", "array"}

\* C12: when package.json is absent, cannot be parsed, or parses to null, an
\* array or a scalar, the run aborts in step 1 with exit code 1 and no
\* external command, git status included, is ever issued.
C12_AsStated ==
    (NoKeyValueManifest /\ argv.bump.kind # "invalid")
        => /\ cmds = <<>>
           /\ pc \in {"start", "exit"}
           /\ pc = "exit" => exitCode = 1

---------------------------------------------------------------------------
(* C13 *)

\* A command line as echoed: the command and its arguments, without the
\* mark that tells an echoed comment from a started command.
Line(c, arg, ver) == [cmd |-> c, arg |-> arg, ver |-> ver]

EchoedLines == [i \in 1..Len(cmds) |-> Line(cmds[i].cmd, cmds[i].arg, cmds[i].ver)]

\* The custom commit message was given (it shows in the commit line).
CustomMessage ==
    \E i \in 1..Len(cmds) : cmds[i].cmd = "git commit" /\ cmds[i].arg = "custom message"

\* The new version as the inputs determine it, the flag noop not among them.
InputVersion ==
    LET v == DeclaredVersion
        release == argv.bump.kind
    IN  IF release = "explicit" THEN argv.bump.ver
        ELSE IF release \notin {"major", "minor", "patch"} THEN Undef
        ELSE IF v.pre = "" \/ LowerNonZero(v, release) THEN ExactIncrement(v, release)
        ELSE Plain(v.major,
                   IF release = "major" THEN 0 ELSE v.minor,
                   IF release = "patch" THEN v.patch ELSE 0)

\* The command lines of a complete run as the inputs determine them.
InputLines ==
    <<Line("git status", "", Undef)>>
    \o (IF pkgData.prepublish THEN <<Line("npm run", "prepublish", Undef)>>
        ELSE IF pkgData.prepublishOnly THEN <<Line("npm run", "prepublishOnly", Undef)>>
        ELSE <<>>)
    \o <<Line("npm view", "version", Undef)>>
    \o <<IF CustomMessage THEN Line("git commit", "custom message", Undef)
         ELSE Line("git commit", "release version", InputVersion)>>
    \o <<Line("git tag", "", InputVersion),
         Line("git push && git push --tags", "", Undef),
         Line("npm publish", "--tag", Undef)>>

\* The inputs on which step 5 lets a run through.
Releasable ==
    /\ DeclaredVersion.kind = "ver"
    /\ versionOld.kind = "ver"
    /\ SemEqual(DeclaredVersion, versionOld)
    /\ HasPattern(pkgData.text, versionOld)
    /\ InputVersion # versionOld

\* C13: on the same inputs and with every command succeeding, a dry run and
\* a real run echo the same command lines in the same order (the lines are
\* fixed by the inputs, whatever noop is), the dry run differing only in
\* that the state-mutating ones are comments and not started; both end with
\* exit code 0 on the same inputs, and the dry run leaves package.json as it
\* was read.
C13_DryRunMirrorsRealRun ==
    /\ Succeeded =>
          /\ Releasable
          /\ EchoedLines = InputLines
          /\ \A i \in 1..Len(cmds) :
                cmds[i].real = (~argv.noop \/ cmds[i].cmd \notin Mutating)
    /\ (pc = "exit" /\ NothingFailed /\ Releasable) => exitCode = 0
    /\ (argv.noop /\ pkgData # NoData) => file = pkgData

\* A complete dry run with a hook and a custom commit message.
C13_Witness ==
    /\ argv.noop
    /\ Succeeded
    /\ CustomMessage
    /\ pkgData.prepublishOnly /\ ~pkgData.prepublish
    /\ Len(cmds) = 7

---------------------------------------------------------------------------
(* C14 *)

\* What the status command did, once it has ended.
StatusOk == cmds[1].outcome = "ok"

StatusStdout == cmds[1].stdout

StatusStderr == cmds[1].stderr

\* Step 2 is over.
Classified == Len(cmds) >= 1 /\ cmds[1].cmd = "git status" /\ cmds[1].outcome # "running"

\* The run went past step 2.
PastStep2 == pc \notin {"start", "step2", "status"} /\ outErr # "Git working copy status"

\* C14: the classification of step 2 is a total function of the status
\* command's result: clean exactly when it succeeded with empty stdout and
\* empty stderr, changes exactly when it succeeded with some stdout and empty
\* stderr, error exactly when it wrote to stderr or failed; and the run goes
\* past step 2 exactly when the classification is clean.
C14_Classification ==
    Classified =>
      /\ status \in {"clean", "changes", "error"}
      /\ status = "clean" <=> (StatusOk /\ StatusStdout = "" /\ StatusStderr = "")
      /\ status = "changes" <=> (StatusOk /\ StatusStdout # "" /\ StatusStderr = "")
      /\ status = "error" <=> (~StatusOk \/ StatusStderr # "")
      /\ status = "clean" <=> PastStep2
      /\ status # "clean" => Failed /\ Len(cmds) = 1

\* The status command succeeded but wrote to both streams: error.
C14_Witness ==
    /\ Classified
    /\ StatusOk /\ StatusStdout # "" /\ StatusStderr # ""
    /\ status = "error"
    /\ Failed

---------------------------------------------------------------------------
(* C15 *)

\* The places where the file on disk differs from the text read in step 1.
ChangedPlaces ==
    { i \in 1..Len(pkgData.text) : file.text[i] # pkgData.text[i] }

\* C15: a rewrite changes the quoted value of one version key and nothing
\* else: the file has the same kind and the same scripts, as many version
\* keys in the same places, and exactly one of them differs from the text
\* read, in its value only, which went from versionOld to versionNew.
C15_OneValueChanged ==
    (pkgData # NoData /\ file # pkgData) =>
      /\ file.kind = pkgData.kind
      /\ file.prepublish = pkgData.prepublish
      /\ file.prepublishOnly = pkgData.prepublishOnly
      /\ Len(file.text) = Len(pkgData.text)
      /\ Cardinality(ChangedPlaces) = 1
      /\ \A i \in ChangedPlaces :
            /\ file.text[i].top = pkgData.text[i].top
            /\ pkgData.text[i].val = versionOld
            /\ file.text[i].val = versionNew

\* A rewritten text in which two version keys held the old value.
C15_Witness ==
    /\ pkgData # NoData /\ file # pkgData
    /\ Len(pkgData.text) = 2
    /\ pkgData.text[1].val = versionOld
    /\ pkgData.text[2].val = versionOld

---------------------------------------------------------------------------
(* C16 *)

\* The places of the log that hold a hook command.
Hooks == { i \in 1..Len(cmds) : cmds[i].cmd = "npm run" }

DeclaresHook == pkgData.prepublish \/ pkgData.prepublishOnly

\* C16: step 3 issues at most one hook command: npm run prepublish when the
\* manifest declares prepublish (also when it declares both), otherwise
\* npm run prepublishOnly when it declares that, otherwise none.  The hook
\* is started for real exactly when noop is off, and a failing hook ends the
\* run before the registry is queried.
C16_OneHook ==
    /\ Cardinality(Hooks) <= 1
    /\ \A i \in Hooks :
          /\ i = 2
          /\ DeclaresHook
          /\ cmds[i].arg = IF pkgData.prepublish THEN "prepublish" ELSE "prepublishOnly"
          /\ cmds[i].real = ~argv.noop
          /\ cmds[i].outcome = "failed" => Failed /\ Len(cmds) = 2
          /\ Issued("npm view") => cmds[i].outcome = "ok"
    /\ (pc = "step4" \/ Issued("npm view")) => (Hooks # {} <=> DeclaresHook)

\* Both scripts declared; prepublish was run for real and failed.
C16_Witness ==
    /\ pkgData.prepublish /\ pkgData.prepublishOnly
    /\ Hooks = {2}
    /\ cmds[2].real
    /\ cmds[2].outcome = "failed"
    /\ Failed

---------------------------------------------------------------------------
(* C17 *)

\* The places of the log whose command is in flight.
InFlight == { i \in 1..Len(cmds) : cmds[i].outcome = "running" }

\* At most one command is in flight, the last one echoed, and it is the
\* child process.
OneInFlight ==
    /\ Cardinality(InFlight) <= 1
    /\ InFlight \subseteq {Len(cmds)}
    /\ child.running <=> InFlight # {}

\* The function goes on after a command only when the process has exited and
\* both streams have ended; it starts a command, and writes package.json,
\* only when no command is in flight.
AwaitsTheChild ==
    /\ \A i \in InFlight :
          cmds'[i].outcome = "ok" =>
              child.exited /\ child.stdoutEnd /\ child.stderrEnd
    /\ Len(cmds') > Len(cmds) => InFlight = {} /\ ~child.running
    /\ file' # file => InFlight = {} /\ ~child.running
    /\ (InFlight # {} /\ pc' # pc) => cmds'[Len(cmds)].outcome # "running"

\* C17: at most one external command is in flight at any time; a step's
\* command is started only after the previous command's process has exited
\* and both of its output streams have been collected; package.json is
\* never written while a command is running.
C17_OneAtATime == []OneInFlight /\ [][AwaitsTheChild]_vars

\* The commit's process has exited, its stderr has not ended yet, and the
\* function is still waiting.
C17_Witness ==
    /\ pc = "commit"
    /\ child.exited /\ child.stdoutEnd /\ ~child.stderrEnd
    /\ InFlight = {Len(cmds)}

---------------------------------------------------------------------------
(* C18 *)

\* The positions of the function in the order of the source.
PcOrder ==
    <<"start", "step2", "status", "step3", "hook", "step4", "view", "step5",
      "step6", "commit", "step7", "tag", "step8", "push", "step9", "publish",
      "exit">>

Rank(p) == CHOOSE i \in 1..Len(PcOrder) : PcOrder[i] = p

\* The run is over, with exit code 0 or 1.
Terminal == pc = "exit" /\ exitCode \in {0, 1}

\* No command is echoed twice, and a command that has ended stays ended.
NoStepTwice ==
    /\ \A i, j \in 1..Len(cmds) : i # j => cmds[i].cmd # cmds[j].cmd
    /\ Len(cmds) <= 7

\* The function only moves forward; a command that has ended stays ended and
\* a child process is started only with a newly echoed command; while a
\* command's process has not exited the function does not move at all,
\* unless that exit itself, in failure, is what moves it.
MovesForward ==
    /\ pc' # pc => Rank(pc') > Rank(pc)
    /\ \A i \in 1..Len(cmds) : cmds[i].outcome # "running" => cmds'[i] = cmds[i]
    /\ (child' = Started /\ child # Started)
          => ~child.running /\ Len(cmds') = Len(cmds) + 1
    /\ (child.running /\ ~child.exited /\ pc' # pc)
          => /\ cmds'[Len(cmds)].outcome = "failed"
             /\ pc' = "exit"

\* The process of the command in flight has exited and one of its streams
\* has not ended.
WaitsForStream == child.exited /\ ~(child.stdoutEnd /\ child.stderrEnd)

\* C18 as stated: provided every started command exits, every run reaches a
\* terminal state, exit code 0 or 1, after a bounded number of steps, none
\* taken twice; a command that never exits keeps the run where it is.
C18_AsStated ==
    /\ <>Terminal
    /\ []NoStepTwice
    /\ [][MovesForward]_vars

\* C18 amended: provided every started command exits, every run reaches a
\* terminal state or waits for ever for an output stream of an exited
\* command to end; steps are bounded in number and none is taken twice; a
\* command that never exits keeps the run where it is: nothing but that
\* command's end moves the function on.
C18_TerminatesOrWaits ==
    /\ <>Terminal \/ <>[]WaitsForStream
    /\ []NoStepTwice
    /\ [][MovesForward]_vars

\* The hook's process has exited, its stdout has not ended, and the function
\* is still waiting.
C18_Witness ==
    /\ pc = "hook"
    /\ child.exited /\ ~child.stdoutEnd /\ child.stderrEnd
    /\ cmds[Len(cmds)].outcome = "running"

---------------------------------------------------------------------------
(* C19 *)

\* C19: after a successful run for real, whatever accepted text the
\* manifest had (more than one version key included), the top-level version
\* on disk, the version of the git tag and the version in the default commit
\* message all equal the resolved new version.
C19_AsStated ==
    (Succeeded /\ ~argv.noop) =>
      /\ PkgVersion(file.text) = versionNew
      /\ \A i \in 1..Len(cmds) :
            /\ cmds[i].cmd = "git tag" => cmds[i].ver = versionNew
            /\ (cmds[i].cmd = "git commit" /\ cmds[i].arg = "release version")
                  => cmds[i].ver = versionNew

---------------------------------------------------------------------------
(* C20 *)

\* The run at hand is one started after a run for real that failed in one of
\* the steps 6 to 9.
RunAgain == env.run = 2

\* The run has ended with no command of its own failing.
EndedByItself ==
    /\ pc = "exit"
    /\ argv.bump.kind # "invalid"
    /\ \A i \in 1..Len(cmds) :
          cmds[i].outcome # "failed" /\ (cmds[i].cmd = "npm view" => versionOld.kind = "ver")

\* C20: a run for real that fails after writing the manifest cannot be
\* resumed by running kickout again: whatever the bump argument, the later
\* run ends with exit code 1 without writing the manifest or reaching the
\* commit, tag, push or publish command; it ends at the cleanliness check
\* when the working copy still holds the uncommitted manifest, at the
\* version check otherwise.
C20_AsStated ==
    RunAgain =>
      /\ pkgData # NoData => file = pkgData
      /\ \A i \in 1..Len(cmds) : cmds[i].cmd \notin ReleaseCmds
      /\ pc = "exit" => exitCode = 1
      /\ EndedByItself =>
            outErr = IF status = "changes"
                     THEN "Git working copy status"
                     ELSE "latest published version not equal current version"

=============================================================================
